---- MODULE Spec2Model ----
(***************************************************************************)
(* Task-lifecycle and template-scheduling core of the entropy task         *)
(* tracker (backend/routes/tasks.js, backend/routes/templates.js,          *)
(* backend/models/Template.js, backend/services/templateScheduler.js).     *)
(*                                                                         *)
(* Time is counted in minutes since local midnight of day 0.  The task     *)
(* and template collections are functions from document id to document;    *)
(* a hard delete removes the id from the domain.  Optional fields use 0    *)
(* for "undefined" (originalTaskId, completedAt, lastRun).                 *)
(***************************************************************************)
EXTENDS Integers, Sequences, FiniteSets, TLC

VARIABLES
    tasks,      \* the Task collection: id -> document
    nextId,     \* next ObjectId the driver hands out for a task
    templates,  \* the Template collection: id -> document
    now,        \* the wall clock (new Date()), in minutes
    edits,      \* number of update / reorder / swap requests served
    lastOp,     \* the last request and its response
    procs       \* in-flight process-pending requests (step-wise runs)

vars == <<tasks, nextId, templates, now, edits, lastOp, procs>>

----------------------------------------------------------------------------
(* Bounds of the exploration *)

MaxId == 3          \* task documents ever inserted
MaxTicks == 1       \* clock advances while tasks are edited
MaxTplTicks == 2    \* clock advances while templates are scheduled
MaxTemplates == 2   \* template documents ever inserted
MaxToggles == 2     \* edits while templates are scheduled, toggles included
MaxEdits == 1       \* update / reorder / swap requests
MaxInFlight == 2    \* overlapping requests of one kind
MaxReorderIds == 4  \* task documents ever inserted while reordering
MaxHalfHours == 50   \* half-hour steps of the clock while windows are compared
MaxListEdits == 2   \* updates while the listing is observed
MaxRecurTemplates == 1  \* templates inserted while recurrences are compared

----------------------------------------------------------------------------
(* Input alphabets *)

Users == {"u1", "u2"}
Titles == {"A", "B"}
Descriptions == {"d1", "d2"}
Priorities == 1..3

MinutesPerHour == 60 * 1
MinutesPerDay == 24 * MinutesPerHour

\* The wall clock at start: day 1, 04:00 (before the 05:00 boundary, so the
\* current window is the one that began on day 0).
StartTime == MinutesPerDay + 4 * MinutesPerHour

\* The instants at which the exploration looks at the system, numbered
\* from 0: 04:00 and 06:00 of day 1, 04:45 and 06:45 of day 2, and so on.
\* 04:00 -> 06:00 crosses the 05:00 boundary into the next window; 06:00 ->
\* 04:45 of the next calendar day stays inside that window.
ClockAt(k) ==
    StartTime + (k \div 2) * (MinutesPerDay + 45) + (k % 2) * 2 * MinutesPerHour

\* The Category collection.  Categories are only ever soft-deleted
\* (isActive = false), so the collection is a fixed table here.
CategoryDocs ==
    [c1 |-> [user |-> "u1", isActive |-> TRUE],
     c2 |-> [user |-> "u1", isActive |-> TRUE],
     c3 |-> [user |-> "u2", isActive |-> TRUE],
     c4 |-> [user |-> "u1", isActive |-> FALSE]]

Categories == DOMAIN CategoryDocs

\* the category check as it would be without the owner condition
ResolveActive_AnyOwner(u, c) ==
    /\ c \in Categories
    /\ CategoryDocs[c].isActive

\* Category.findOne({ _id, user, isActive: true }) as a truth value
ResolveActive(u, c) ==
    /\ c \in Categories
    /\ CategoryDocs[c].user = u
    /\ CategoryDocs[c].isActive

----------------------------------------------------------------------------
(* Day window *)

BoundaryHour == 5

\* the window as it would be without the step back before 05:00
getDayBoundaries_NoRollback(referenceDate) ==
    LET midnight == (referenceDate \div MinutesPerDay) * MinutesPerDay
        start == midnight + BoundaryHour * MinutesPerHour
    IN [todayStart |-> start,
        tomorrowStart |-> start + MinutesPerDay,
        dayAfterTomorrowStart |-> start + 2 * MinutesPerDay]

getDayBoundaries(referenceDate) ==
    LET midnight == (referenceDate \div MinutesPerDay) * MinutesPerDay
        hours == (referenceDate % MinutesPerDay) \div MinutesPerHour
        atFive == midnight + BoundaryHour * MinutesPerHour
        start == IF hours < BoundaryHour THEN atFive - MinutesPerDay ELSE atFive
    IN [todayStart |-> start,
        tomorrowStart |-> start + MinutesPerDay,
        dayAfterTomorrowStart |-> start + 2 * MinutesPerDay]

InRange(d, lo, hi) == lo <= d /\ d < hi

----------------------------------------------------------------------------
(* Generic helpers *)

\* All orders in which a query without sort may return the documents S
Orders(S) ==
    {s \in [1..Cardinality(S) -> S] : \A i, j \in 1..Cardinality(S) : s[i] = s[j] => i = j}

Ids == 1..MaxId

NoOp ==
    [kind |-> "init", user |-> "u1", id |-> 0, status |-> 0,
     created |-> {}, marked |-> {}, results |-> <<>>, cyc |-> 0]

\* The record of a request and its response: the route, the caller, the :id
\* parameter (0 if none), the HTTP status, the ids of the documents it
\* inserted and of those it reports as moved, and the per-item result list.
\* cyc counts consecutive move-to-tomorrow / move-back-to-today round trips.
Op(kind, u, id, status, created, marked, results, cyc) ==
    [kind |-> kind, user |-> u, id |-> id, status |-> status,
     created |-> created, marked |-> marked, results |-> results, cyc |-> cyc]

----------------------------------------------------------------------------
(* Task documents *)

NewTask(u, title, description, priority, category, date, original) ==
    [user |-> u, title |-> title, description |-> description,
     priority |-> priority, category |-> category, completed |-> FALSE,
     date |-> date, completedAt |-> 0, moved |-> FALSE, deleted |-> FALSE,
     originalTaskId |-> original]

Insert(T, id, doc) == [i \in DOMAIN T \cup {id} |-> IF i = id THEN doc ELSE T[i]]

Remove(T, S) == [i \in DOMAIN T \ S |-> T[i]]

\* the listing filter as it would be without the owner condition
TodayTasks_AnyOwner(T, u, b) ==
    {i \in DOMAIN T :
        /\ InRange(T[i].date, b.todayStart, b.tomorrowStart)
        /\ ~T[i].moved
        /\ ~T[i].deleted}

\* the listing filter as it would be with $gt in place of $gte
TodayTasks_AfterStart(T, u, b) ==
    {i \in DOMAIN T :
        /\ T[i].user = u
        /\ b.todayStart < T[i].date
        /\ T[i].date < b.tomorrowStart
        /\ ~T[i].moved
        /\ ~T[i].deleted}

\* the listing filter as it would be without the moved condition
TodayTasks_IncludingMoved(T, u, b) ==
    {i \in DOMAIN T :
        /\ T[i].user = u
        /\ InRange(T[i].date, b.todayStart, b.tomorrowStart)
        /\ ~T[i].deleted}

\* the "today" listing filter: owner, window, not moved, not deleted
TodayTasks(T, u, b) ==
    {i \in DOMAIN T :
        /\ T[i].user = u
        /\ InRange(T[i].date, b.todayStart, b.tomorrowStart)
        /\ ~T[i].moved
        /\ ~T[i].deleted}

Idle == procs = <<>>

----------------------------------------------------------------------------
(* The routes that report on "today" *)

\* GET /api/tasks/today: the ids listed for today and the boundaries the
\* response carries
GetToday(u) ==
    /\ Idle
    /\ LET b == getDayBoundaries(now)
       IN lastOp' = Op("getToday", u, 0, 200, {}, TodayTasks(tasks, u, b),
                       <<b.todayStart, b.tomorrowStart>>, 0)
    /\ UNCHANGED <<tasks, nextId, templates, now, edits, procs>>

\* the helper of the analytics routes
getDayBoundaries_analytics(referenceDate) ==
    LET midnight == (referenceDate \div MinutesPerDay) * MinutesPerDay
        hours == (referenceDate % MinutesPerDay) \div MinutesPerHour
        atFive == midnight + BoundaryHour * MinutesPerHour
        start == IF hours < BoundaryHour THEN atFive - MinutesPerDay ELSE atFive
    IN [todayStart |-> start, tomorrowStart |-> start + MinutesPerDay]

\* today.setHours(0, 0, 0, 0); tomorrow = today + 1 day
progressWindow(referenceDate) ==
    LET today == (referenceDate \div MinutesPerDay) * MinutesPerDay
    IN [today |-> today, tomorrow |-> today + MinutesPerDay]

\* GET /api/progress/today: the documents counted as today's tasks and the
\* interval they were counted in
ProgressToday(u) ==
    /\ Idle
    /\ LET w == progressWindow(now)
       IN lastOp' = Op("progressToday", u, 0, 200, {},
                       {i \in DOMAIN tasks :
                           tasks[i].user = u /\ InRange(tasks[i].date, w.today, w.tomorrow)},
                       <<w.today, w.tomorrow>>, 0)
    /\ UNCHANGED <<tasks, nextId, templates, now, edits, procs>>

\* half an hour passes
Elapse(max) ==
    /\ Idle
    /\ now < StartTime + max * (MinutesPerHour \div 2)
    /\ now' = now + MinutesPerHour \div 2
    /\ lastOp' = Op("tick", "u1", 0, 0, {}, {}, <<>>, 0)
    /\ UNCHANGED <<tasks, nextId, templates, edits, procs>>

----------------------------------------------------------------------------
(* POST /api/tasks *)

\* Request bodies offered to the exploration.  date 0 = omitted; otherwise
\* an offset from the clock (next day, the day after).
CreateInputs ==
    {[user |-> "u1", title |-> "A", priority |-> 1, category |-> "c1", date |-> 0],
     [user |-> "u1", title |-> "A", priority |-> 2, category |-> "c1", date |-> 0],
     [user |-> "u1", title |-> "B", priority |-> 1, category |-> "c1", date |-> 0],
     [user |-> "u1", title |-> "A", priority |-> 1, category |-> "c2", date |-> 0],
     [user |-> "u1", title |-> "A", priority |-> 1, category |-> "c1", date |-> MinutesPerDay],
     [user |-> "u1", title |-> "A", priority |-> 1, category |-> "c1", date |-> 2 * MinutesPerDay],
     [user |-> "u1", title |-> "A", priority |-> 1, category |-> "c3", date |-> 0],
     [user |-> "u1", title |-> "A", priority |-> 1, category |-> "c4", date |-> 0],
     [user |-> "u2", title |-> "A", priority |-> 1, category |-> "c3", date |-> 0]}

\* Bodies that leave out a required field: an absent (or empty) title or
\* category is written "", an absent (or zero) priority 0.
Missing == ""

IncompleteCreateInputs ==
    {[user |-> "u1", title |-> Missing, priority |-> 1, category |-> "c1", date |-> 0],
     [user |-> "u1", title |-> "A", priority |-> 0, category |-> "c1", date |-> 0],
     [user |-> "u1", title |-> "A", priority |-> 1, category |-> Missing, date |-> 0]}

\* !title || !priority || !category
RequiredMissing(in) ==
    in.title = Missing \/ in.priority = 0 \/ in.category = Missing

\* max bounds the documents ever inserted in the exploration
CreateWithin(in, max) ==
    /\ Idle
    /\ nextId <= max
    /\ LET b == getDayBoundaries(now)
           taskDate == IF in.date # 0 THEN now + in.date ELSE b.todayStart
       IN IF RequiredMissing(in)
          THEN /\ UNCHANGED <<tasks, nextId>>
               /\ lastOp' = Op("create", in.user, 0, 400, {}, {}, <<>>, 0)
          ELSE IF ~ResolveActive(in.user, in.category)
          THEN /\ UNCHANGED <<tasks, nextId>>
               /\ lastOp' = Op("create", in.user, 0, 400, {}, {}, <<>>, 0)
          ELSE /\ tasks' = Insert(tasks, nextId,
                              NewTask(in.user, in.title, "d1", in.priority,
                                      in.category, taskDate, 0))
               /\ nextId' = nextId + 1
               /\ lastOp' = Op("create", in.user, nextId, 201, {nextId}, {}, <<>>, 0)
    /\ UNCHANGED <<templates, now, edits, procs>>

Create(in) == CreateWithin(in, MaxId)

----------------------------------------------------------------------------
(* PUT /api/tasks/:id *)

\* Request bodies offered to the exploration (partial documents)
UpdateBodies ==
    {[completed |-> TRUE], [completed |-> FALSE], [priority |-> 3],
     [description |-> "d2"], [deleted |-> TRUE]}

\* findOneAndUpdate's $set of the body's fields
ApplyUpdates(doc, updates) ==
    [f \in DOMAIN doc |-> IF f \in DOMAIN updates THEN updates[f] ELSE doc[f]]

\* the handler as it would be if un-completing cleared the timestamp
StampCompletedAt_ClearsOnUncomplete(body) ==
    IF "completed" \in DOMAIN body /\ "completedAt" \notin DOMAIN body
    THEN [f \in DOMAIN body \cup {"completedAt"} |->
             IF f = "completedAt" THEN (IF body.completed THEN now ELSE 0) ELSE body[f]]
    ELSE body

\* the handler stamps completedAt when the body completes the task
StampCompletedAt(body) ==
    IF /\ "completed" \in DOMAIN body
       /\ body.completed
       /\ "completedAt" \notin DOMAIN body
    THEN [f \in DOMAIN body \cup {"completedAt"} |->
             IF f = "completedAt" THEN now ELSE body[f]]
    ELSE body

\* max bounds the edits made in the exploration
UpdateWithin(u, id, body, max) ==
    /\ Idle
    /\ edits < max
    /\ edits' = edits + 1
    /\ LET updates == StampCompletedAt(body)
       IN IF "category" \in DOMAIN updates /\ ~ResolveActive(u, updates.category)
          THEN /\ UNCHANGED tasks
               /\ lastOp' = Op("update", u, id, 400, {}, {}, <<>>, 0)
          ELSE IF id \in DOMAIN tasks /\ tasks[id].user = u
          THEN /\ tasks' = [tasks EXCEPT ![id] = ApplyUpdates(@, updates)]
               /\ lastOp' = Op("update", u, id, 200, {}, {}, <<>>, 0)
          ELSE /\ UNCHANGED tasks
               /\ lastOp' = Op("update", u, id, 404, {}, {}, <<>>, 0)
    /\ UNCHANGED <<nextId, templates, now, procs>>

Update(u, id, body) == UpdateWithin(u, id, body, MaxEdits)

----------------------------------------------------------------------------
(* DELETE /api/tasks/:id *)

\* the window test as it would be without its upper bound
IsTomorrowTask_NoUpperBound(doc, b) ==
    doc.date >= b.tomorrowStart

\* task.date >= tomorrowStart && task.date < dayAfterTomorrowStart
IsTomorrowTask(doc, b) ==
    doc.date >= b.tomorrowStart /\ doc.date < b.dayAfterTomorrowStart

\* the documents the relatedMovedTask query matches
RelatedMovedTasks(T, u, doc, b) ==
    {j \in DOMAIN T :
        /\ T[j].user = u
        /\ T[j].title = doc.title
        /\ T[j].description = doc.description
        /\ T[j].priority = doc.priority
        /\ T[j].category = doc.category
        /\ InRange(T[j].date, b.todayStart, b.tomorrowStart)
        /\ T[j].moved}

Delete(u, id) ==
    /\ Idle
    /\ IF id \in DOMAIN tasks /\ tasks[id].user = u
       THEN LET b == getDayBoundaries(now)
                taskToDelete == tasks[id]
                isTomorrowTask == IsTomorrowTask(taskToDelete, b)
                related == IF isTomorrowTask
                           THEN RelatedMovedTasks(tasks, u, taskToDelete, b)
                           ELSE {}
            IN \* findOne returns one of the matching documents
               /\ \E gone \in (IF related = {} THEN {{}} ELSE {{j} : j \in related}) :
                     tasks' = Remove(tasks, gone \cup {id})
               /\ lastOp' = Op("delete", u, id, 200, {}, {}, <<>>, 0)
       ELSE /\ UNCHANGED tasks
            /\ lastOp' = Op("delete", u, id, 404, {}, {}, <<>>, 0)
    /\ UNCHANGED <<nextId, templates, now, edits, procs>>

----------------------------------------------------------------------------
(* POST /api/tasks/move-to-tomorrow *)

\* the uncompletedTasks query
Uncompleted(T, u, b) == {i \in TodayTasks(T, u, b) : ~T[i].completed}

\* the duplicate check as it would be if it matched on the title alone
ExistsTomorrow_TitleOnly(T, u, title, category, b) ==
    \E j \in DOMAIN T :
        /\ T[j].user = u
        /\ T[j].title = title
        /\ InRange(T[j].date, b.tomorrowStart, b.dayAfterTomorrowStart)
        /\ ~T[j].deleted

\* the existingTomorrowTask query, as a truth value
ExistsTomorrow(T, u, title, category, b) ==
    \E j \in DOMAIN T :
        /\ T[j].user = u
        /\ T[j].title = title
        /\ T[j].category = category
        /\ InRange(T[j].date, b.tomorrowStart, b.dayAfterTomorrowStart)
        /\ ~T[j].deleted

NoFault == 0

\* writes a run may still perform before the storage layer throws;
\* a negative number never reaches 0: no failure
WritesBefore(fault) == IF fault = NoFault THEN 0 - 1 ELSE fault - 1

\* the loop body as it would be if it re-dated the task in place
MoveOne_Relocate(st, id, task, u, b) ==
    [st EXCEPT
       !.T = [i \in DOMAIN st.T |->
                IF i = id THEN [st.T[i] EXCEPT !.date = b.tomorrowStart] ELSE st.T[i]],
       !.marked = st.marked \cup {id}]

\* the loop body as it would be if it marked the source before saving the copy
MoveOne_MarkFirst(st, id, task, u, b) ==
    LET flagged == IF st.w = 0 THEN [st EXCEPT !.ok = FALSE]
                   ELSE [st EXCEPT
                           !.T = [i \in DOMAIN st.T |->
                                    IF i = id THEN [st.T[i] EXCEPT !.moved = TRUE]
                                    ELSE st.T[i]],
                           !.marked = st.marked \cup {id},
                           !.w = st.w - 1]
        existing == ExistsTomorrow(flagged.T, u, task.title, task.category, b)
    IN IF ~flagged.ok \/ existing THEN flagged
       ELSE IF flagged.w = 0 THEN [flagged EXCEPT !.ok = FALSE]
       ELSE [flagged EXCEPT
               !.T = Insert(flagged.T, flagged.nid,
                        NewTask(u, task.title, task.description, task.priority,
                                task.category, b.tomorrowStart, id)),
               !.nid = flagged.nid + 1,
               !.created = flagged.created \cup {flagged.nid},
               !.w = flagged.w - 1]

\* One iteration of the for-loop over uncompletedTasks.  st carries the
\* collection T, the id counter nid, the response sets, the writes left w
\* and ok (FALSE once a write has thrown and the outer catch has run).
MoveOne(st, id, task, u, b) ==
    LET existing == ExistsTomorrow(st.T, u, task.title, task.category, b)
        saved == IF existing THEN st
                 ELSE IF st.w = 0 THEN [st EXCEPT !.ok = FALSE]
                 ELSE [st EXCEPT
                         !.T = Insert(st.T, st.nid,
                                  NewTask(u, task.title, task.description, task.priority,
                                          task.category, b.tomorrowStart, id)),
                         !.nid = st.nid + 1,
                         !.created = st.created \cup {st.nid},
                         !.w = st.w - 1]
    IN IF ~saved.ok THEN saved
       ELSE IF saved.w = 0 THEN [saved EXCEPT !.ok = FALSE]
       ELSE [saved EXCEPT
               !.T = [i \in DOMAIN saved.T |->
                        IF i = id THEN [saved.T[i] EXCEPT !.moved = TRUE] ELSE saved.T[i]],
               !.marked = saved.marked \cup {id},
               !.w = saved.w - 1]

RECURSIVE MoveLoop(_, _, _, _, _, _)
MoveLoop(st, snapshot, order, k, u, b) ==
    IF k > Len(order) \/ ~st.ok THEN st
    ELSE MoveLoop(MoveOne(st, order[k], snapshot[order[k]], u, b),
                  snapshot, order, k + 1, u, b)

MoveForward(u, fault) ==
    /\ Idle
    /\ LET b == getDayBoundaries(now)
       IN \* the query has no sort: any order of the matching documents
          \E order \in Orders(Uncompleted(tasks, u, b)) :
             LET st0 == [T |-> tasks, nid |-> nextId, created |-> {}, marked |-> {},
                         w |-> WritesBefore(fault), ok |-> TRUE]
                 r == MoveLoop(st0, tasks, order, 1, u, b)
             IN /\ r.nid <= MaxId + 1
                /\ tasks' = r.T
                /\ nextId' = r.nid
                /\ lastOp' = Op("moveForward", u, 0, IF r.ok THEN 200 ELSE 500,
                                r.created, r.marked, <<>>,
                                IF lastOp.kind = "moveBackward" /\ lastOp.status = 200
                                THEN lastOp.cyc ELSE 0)
    /\ UNCHANGED <<templates, now, edits, procs>>

----------------------------------------------------------------------------
(* POST /api/tasks/move-back-to-today/:id *)

\* the purge as it would be if it spared the documents hidden by moved = true
SameTitleToday_VisibleOnly(T, u, doc, id, b) ==
    {j \in DOMAIN T :
        /\ T[j].user = u
        /\ T[j].title = doc.title
        /\ T[j].category = doc.category
        /\ InRange(T[j].date, b.todayStart, b.tomorrowStart)
        /\ ~T[j].moved
        /\ j # id}

\* the purge as it would be if it matched on the title alone
SameTitleToday_TitleOnly(T, u, doc, id, b) ==
    {j \in DOMAIN T :
        /\ T[j].user = u
        /\ T[j].title = doc.title
        /\ InRange(T[j].date, b.todayStart, b.tomorrowStart)
        /\ j # id}

\* the documents the deleteMany filter matches
SameTitleToday(T, u, doc, id, b) ==
    {j \in DOMAIN T :
        /\ T[j].user = u
        /\ T[j].title = doc.title
        /\ T[j].category = doc.category
        /\ InRange(T[j].date, b.todayStart, b.tomorrowStart)
        /\ j # id}

MoveBackward(u, id) ==
    /\ Idle
    /\ LET b == getDayBoundaries(now)
       IN IF ~(id \in DOMAIN tasks /\ tasks[id].user = u)
          THEN /\ UNCHANGED tasks
               /\ lastOp' = Op("moveBackward", u, id, 404, {}, {}, <<>>, 0)
          ELSE IF ~IsTomorrowTask(tasks[id], b)
          THEN /\ UNCHANGED tasks
               /\ lastOp' = Op("moveBackward", u, id, 400, {}, {}, <<>>, 0)
          ELSE /\ tasks' = [i \in DOMAIN tasks \ SameTitleToday(tasks, u, tasks[id], id, b) |->
                              IF i = id
                              THEN [tasks[i] EXCEPT !.date = b.todayStart,
                                                    !.originalTaskId = 0]
                              ELSE tasks[i]]
               /\ lastOp' = Op("moveBackward", u, id, 200, {}, {}, <<>>,
                               IF lastOp.kind = "moveForward" /\ id \in lastOp.created
                               THEN lastOp.cyc + 1 ELSE 0)
    /\ UNCHANGED <<nextId, templates, now, edits, procs>>

----------------------------------------------------------------------------
(* POST /api/tasks/reorder-tasks *)

\* the new priority as it would be without the cap
Min_Uncapped(a, b) == a

Min(a, b) == IF a < b THEN a ELSE b

PriorityCap == 3

\* orderedTaskIds offered to the exploration: every order of every
\* non-empty set of ids, the empty array, and an array repeating one id
ReorderInputsOver(I) ==
    UNION {Orders(S) : S \in SUBSET I} \cup {<<i, i>> : i \in I}

ReorderInputs == ReorderInputsOver(Ids)

Range(s) == {s[i] : i \in DOMAIN s}

\* the validation query as it would be without the owner condition
OwnedAmong_AnyOwner(T, u, orderedTaskIds) ==
    {i \in DOMAIN T : i \in Range(orderedTaskIds)}

\* Task.find({ _id: { $in: orderedTaskIds }, user })
OwnedAmong(T, u, orderedTaskIds) ==
    {i \in DOMAIN T : i \in Range(orderedTaskIds) /\ T[i].user = u}

\* a body whose orderedTaskIds is missing or is not an array
ReorderNotArray(u) ==
    /\ Idle
    /\ edits < MaxEdits
    /\ edits' = edits + 1
    /\ lastOp' = Op("reorder", u, 0, 400, {}, {}, <<>>, 0)
    /\ UNCHANGED <<tasks, nextId, templates, now, procs>>

Reorder(u, orderedTaskIds) ==
    /\ Idle
    /\ edits < MaxEdits
    /\ edits' = edits + 1
    /\ LET found == OwnedAmong(tasks, u, orderedTaskIds)
       IN IF Len(orderedTaskIds) = 0 \/ Cardinality(found) # Len(orderedTaskIds)
          THEN /\ UNCHANGED tasks
               /\ lastOp' = Op("reorder", u, 0, 400, {}, {}, <<>>, 0)
          ELSE /\ tasks' = [i \in DOMAIN tasks |->
                              IF i \in Range(orderedTaskIds)
                              THEN [tasks[i] EXCEPT !.priority =
                                      Min((CHOOSE k \in DOMAIN orderedTaskIds :
                                              orderedTaskIds[k] = i), PriorityCap)]
                              ELSE tasks[i]]
               /\ lastOp' = Op("reorder", u, 0, 200, {}, {}, <<>>, 0)
    /\ UNCHANGED <<nextId, templates, now, procs>>

----------------------------------------------------------------------------
(* POST /api/tasks/move-task-up/:id and /move-task-down/:id *)

\* .sort({ priority: 1, _id: 1 }) of a set of documents
SortedByPriority(T, S) ==
    CHOOSE s \in Orders(S) :
        \A i, j \in 1..Cardinality(S) :
            i < j => \/ T[s[i]].priority < T[s[j]].priority
                     \/ (T[s[i]].priority = T[s[j]].priority /\ s[i] < s[j])

\* findIndex: the position of id in the list, 0 when absent
IndexOf(s, id) == IF \E k \in DOMAIN s : s[k] = id
                  THEN CHOOSE k \in DOMAIN s : s[k] = id ELSE 0

\* the swap as it would be if only the target's priority were written
SwapPriorities_OneWrite(T, a, c) ==
    [i \in DOMAIN T |->
        IF i = a THEN [T[i] EXCEPT !.priority = T[c].priority] ELSE T[i]]

\* await Promise.all([...]) with both updates applied
SwapPriorities(T, a, c) ==
    [i \in DOMAIN T |->
        IF i = a THEN [T[i] EXCEPT !.priority = T[c].priority]
        ELSE IF i = c THEN [T[i] EXCEPT !.priority = T[a].priority]
        ELSE T[i]]

MoveUp(u, id) ==
    /\ Idle
    /\ edits < MaxEdits
    /\ edits' = edits + 1
    /\ LET b == getDayBoundaries(now)
           todayTasks == SortedByPriority(tasks, TodayTasks(tasks, u, b))
           currentIndex == IndexOf(todayTasks, id)
       IN IF currentIndex = 0
          THEN /\ UNCHANGED tasks
               /\ lastOp' = Op("moveUp", u, id, 404, {}, {}, <<>>, 0)
          ELSE IF currentIndex = 1
          THEN /\ UNCHANGED tasks
               /\ lastOp' = Op("moveUp", u, id, 400, {}, {}, <<>>, 0)
          ELSE /\ tasks' = SwapPriorities(tasks, id, todayTasks[currentIndex - 1])
               /\ lastOp' = Op("moveUp", u, id, 200, {}, {}, <<>>, 0)
    /\ UNCHANGED <<nextId, templates, now, procs>>

MoveDown(u, id) ==
    /\ Idle
    /\ edits < MaxEdits
    /\ edits' = edits + 1
    /\ LET b == getDayBoundaries(now)
           todayTasks == SortedByPriority(tasks, TodayTasks(tasks, u, b))
           currentIndex == IndexOf(todayTasks, id)
       IN IF currentIndex = 0
          THEN /\ UNCHANGED tasks
               /\ lastOp' = Op("moveDown", u, id, 404, {}, {}, <<>>, 0)
          ELSE IF currentIndex = Len(todayTasks)
          THEN /\ UNCHANGED tasks
               /\ lastOp' = Op("moveDown", u, id, 400, {}, {}, <<>>, 0)
          ELSE /\ tasks' = SwapPriorities(tasks, id, todayTasks[currentIndex + 1])
               /\ lastOp' = Op("moveDown", u, id, 200, {}, {}, <<>>, 0)
    /\ UNCHANGED <<nextId, templates, now, procs>>

----------------------------------------------------------------------------
(* A swap, one await at a time *)

\* The two writes handed to Promise.all are separate findByIdAndUpdate
\* calls: each is applied on its own, in either order, and one may reject
\* while the other succeeds.  A request in flight remembers the two ids, the
\* values it read, and which of its writes have settled.
SwapStart(u, id, kind) ==
    /\ Len(procs) < MaxInFlight
    /\ LET b == getDayBoundaries(now)
           todayTasks == SortedByPriority(tasks, TodayTasks(tasks, u, b))
           currentIndex == IndexOf(todayTasks, id)
           boundary == IF kind = "moveUp" THEN 1 ELSE Len(todayTasks)
           other == IF kind = "moveUp" THEN currentIndex - 1 ELSE currentIndex + 1
       IN IF currentIndex = 0
          THEN /\ UNCHANGED procs
               /\ lastOp' = Op(kind, u, id, 404, {}, {}, <<>>, 0)
          ELSE IF currentIndex = boundary
          THEN /\ UNCHANGED procs
               /\ lastOp' = Op(kind, u, id, 400, {}, {}, <<>>, 0)
          ELSE /\ procs' = Append(procs,
                     [kind |-> kind, user |-> u, pc |-> "write",
                      current |-> id, neighbour |-> todayTasks[other],
                      currentPriority |-> tasks[id].priority,
                      neighbourPriority |-> tasks[todayTasks[other]].priority,
                      settled |-> {}, failed |-> {}, before |-> tasks])
               /\ lastOp' = Op(kind, u, id, 0, {}, {}, <<>>, 0)
    /\ UNCHANGED <<tasks, nextId, templates, now, edits>>

SwapWrites == {"current", "neighbour"}

\* one of the two findByIdAndUpdate calls is applied
SwapWrite(p, which) ==
    /\ p \in DOMAIN procs
    /\ procs[p].pc = "write"
    /\ which \notin procs[p].settled
    /\ LET me == procs[p]
           target == IF which = "current" THEN me.current ELSE me.neighbour
           value == IF which = "current" THEN me.neighbourPriority ELSE me.currentPriority
       IN /\ tasks' = [tasks EXCEPT ![target].priority = value]
          /\ procs' = [procs EXCEPT ![p].settled = @ \cup {which}]
    /\ UNCHANGED <<nextId, templates, now, edits, lastOp>>

\* one of the two findByIdAndUpdate calls rejects
SwapWriteThrows(p, which) ==
    /\ p \in DOMAIN procs
    /\ procs[p].pc = "write"
    /\ which \notin procs[p].settled
    /\ procs' = [procs EXCEPT ![p].settled = @ \cup {which},
                              ![p].failed = @ \cup {which}]
    /\ UNCHANGED <<tasks, nextId, templates, now, edits, lastOp>>

\* res.json / the catch block's res.status(500)
SwapRespond(p) ==
    /\ p \in DOMAIN procs
    /\ procs[p].pc = "write"
    /\ procs[p].settled = SwapWrites
    /\ procs' = [procs EXCEPT ![p].pc = "done"]
    /\ lastOp' = Op(procs[p].kind, procs[p].user, procs[p].current,
                    IF procs[p].failed = {} THEN 200 ELSE 500, {}, {}, <<>>, 0)
    /\ UNCHANGED <<tasks, nextId, templates, now, edits>>

----------------------------------------------------------------------------
(* The local calendar behind Date.setDate / setMonth / getDay *)

\* Day 0 of the clock is Wednesday 1 January 2025 (getDay() = 3).
EpochWeekday == 3

\* Day number of the first of each month, January 2025 .. January 2027
MonthStarts ==
    <<0, 31, 59, 90, 120, 151, 181, 212, 243, 273, 304, 334,
      365, 396, 424, 455, 485, 516, 546, 577, 608, 638, 669, 699, 730>>

DayOf(t) == t \div MinutesPerDay
TimeOfDay(t) == t % MinutesPerDay

\* Date.getDay(): 0 = Sunday
getDay(t) == (DayOf(t) + EpochWeekday) % 7

\* index (in MonthStarts) of the month an instant falls in
MonthOf(t) ==
    CHOOSE m \in 1..(Len(MonthStarts) - 1) :
        MonthStarts[m] <= DayOf(t) /\ DayOf(t) < MonthStarts[m + 1]

\* Date.getDate()
getDate(t) == DayOf(t) - MonthStarts[MonthOf(t)] + 1

\* Date.setHours(h, m, 0, 0)
setHours(t, h, m) == DayOf(t) * MinutesPerDay + h * MinutesPerHour + m

\* Date.setDate(d): day d of the current month, overflowing into the next
setDate(t, d) == (MonthStarts[MonthOf(t)] + d - 1) * MinutesPerDay + TimeOfDay(t)

\* the day arithmetic as it would be if it always advanced by one day
addDays_One(t, n) == t + MinutesPerDay

\* date.setDate(date.getDate() + n)
addDays(t, n) == t + n * MinutesPerDay

\* the month arithmetic as it would be if the month were left alone
addMonths_None(t, n) == t

\* Date.setMonth(getMonth() + n): same day-of-month n months on, overflowing
addMonths(t, n) ==
    (MonthStarts[MonthOf(t) + n] + getDate(t) - 1) * MinutesPerDay + TimeOfDay(t)

----------------------------------------------------------------------------
(* Template.calculateNextRun *)

\* recurrence.daysOfWeek is an array path of the schema: every document
\* has an array there, empty when none was given, and an array is truthy,
\* so `daysOfWeek || [1]` is daysOfWeek.  dayOfMonth 0 stands for undefined.
calculateNextRun(recurrence, clock) ==
    LET next == setHours(clock, recurrence.hour, recurrence.minute)
    IN CASE recurrence.type = "daily" ->
              IF next <= clock THEN addDays(next, recurrence.interval) ELSE next
         [] recurrence.type = "weekly" ->
              LET targetDays == recurrence.daysOfWeek
                  hits == {i \in 0..13 : /\ getDay(addDays(next, i)) \in targetDays
                                         /\ addDays(next, i) > clock}
              IN IF hits # {}
                 THEN addDays(next, CHOOSE i \in hits : \A j \in hits : i <= j)
                 ELSE addDays(next, 7 * recurrence.interval)
         [] recurrence.type = "monthly" ->
              LET targetDay == IF recurrence.dayOfMonth = 0 THEN 1
                               ELSE recurrence.dayOfMonth
                  first == setDate(next, targetDay)
              IN IF first <= clock
                 THEN setDate(addMonths(first, recurrence.interval), targetDay)
                 ELSE first
         [] OTHER ->
              IF next <= clock THEN addDays(next, recurrence.interval) ELSE next

----------------------------------------------------------------------------
(* Template routes *)

\* the day-boundary helper of the template routes
getDayBoundaries_templates(referenceDate) ==
    LET midnight == (referenceDate \div MinutesPerDay) * MinutesPerDay
        hours == (referenceDate % MinutesPerDay) \div MinutesPerHour
        atFive == midnight + BoundaryHour * MinutesPerHour
        start == IF hours < BoundaryHour THEN atFive - MinutesPerDay ELSE atFive
    IN [todayStart |-> start, tomorrowStart |-> start + MinutesPerDay]

Recurrence(type, interval, days, dayOfMonth, hour, minute) ==
    [type |-> type, interval |-> interval, daysOfWeek |-> days,
     dayOfMonth |-> dayOfMonth, hour |-> hour, minute |-> minute]

\* Request bodies offered to the exploration.  Day 1 of the clock is a
\* Thursday (getDay() = 4) and the 2nd of the month.
TemplateInputs ==
    {[user |-> "u1", title |-> "A", priority |-> 2, category |-> "c1",
      recurrence |-> Recurrence("daily", 1, {}, 0, 4, 30)],
     [user |-> "u1", title |-> "A", priority |-> 1, category |-> "c1",
      recurrence |-> Recurrence("weekly", 1, {4}, 0, 5, 0)],
     [user |-> "u1", title |-> "B", priority |-> 2, category |-> "c1",
      recurrence |-> Recurrence("monthly", 1, {}, 2, 5, 0)],
     [user |-> "u1", title |-> "A", priority |-> 2, category |-> "c4",
      recurrence |-> Recurrence("daily", 1, {}, 0, 5, 0)],
     [user |-> "u2", title |-> "A", priority |-> 2, category |-> "c3",
      recurrence |-> Recurrence("daily", 1, {}, 0, 5, 0)]}

\* POST /api/templates; max bounds the templates ever inserted
CreateTemplateWithin(in, max) ==
    /\ Idle
    /\ Cardinality(DOMAIN templates) < max
    /\ LET id == Cardinality(DOMAIN templates) + 1
       IN IF ~ResolveActive(in.user, in.category)
          THEN /\ UNCHANGED templates
               /\ lastOp' = Op("createTemplate", in.user, 0, 400, {}, {}, <<>>, 0)
          ELSE /\ templates' = Insert(templates, id,
                    [user |-> in.user, title |-> in.title, description |-> "d1",
                     priority |-> in.priority, category |-> in.category,
                     recurrence |-> in.recurrence, isActive |-> TRUE,
                     nextRun |-> calculateNextRun(in.recurrence, now),
                     lastRun |-> 0, createdTasksCount |-> 0])
               /\ lastOp' = Op("createTemplate", in.user, id, 201, {}, {}, <<>>, 0)
    /\ UNCHANGED <<tasks, nextId, now, edits, procs>>

CreateTemplate(in) == CreateTemplateWithin(in, MaxTemplates)

\* PUT /api/templates/:id with a body of template fields
UpdateTemplate(u, id, body) ==
    /\ Idle
    /\ edits < MaxToggles
    /\ edits' = edits + 1
    /\ IF id \in DOMAIN templates /\ templates[id].user = u
       THEN /\ templates' = [templates EXCEPT ![id] =
                 LET updated == ApplyUpdates(templates[id], body)
                 IN IF "recurrence" \in DOMAIN body
                    THEN [updated EXCEPT
                            !.nextRun = calculateNextRun(updated.recurrence, now)]
                    ELSE updated]
            /\ lastOp' = Op("updateTemplate", u, id, 200, {}, {}, <<>>, 0)
       ELSE /\ UNCHANGED templates
            /\ lastOp' = Op("updateTemplate", u, id, 404, {}, {}, <<>>, 0)
    /\ UNCHANGED <<tasks, nextId, now, procs>>

\* POST /api/templates/:id/run
RunTemplate(u, id) ==
    /\ Idle
    /\ nextId <= MaxId
    /\ IF ~(id \in DOMAIN templates /\ templates[id].user = u)
       THEN /\ UNCHANGED <<tasks, nextId, templates>>
            /\ lastOp' = Op("runTemplate", u, id, 404, {}, {}, <<>>, 0)
       ELSE IF ~templates[id].isActive
       THEN /\ UNCHANGED <<tasks, nextId, templates>>
            /\ lastOp' = Op("runTemplate", u, id, 400, {}, {}, <<>>, 0)
       ELSE /\ tasks' = Insert(tasks, nextId,
                           NewTask(u, templates[id].title, templates[id].description,
                                   templates[id].priority, templates[id].category,
                                   getDayBoundaries_templates(now).todayStart, 0))
            /\ nextId' = nextId + 1
            /\ templates' = [templates EXCEPT
                                ![id].lastRun = now,
                                ![id].createdTasksCount = @ + 1]
            /\ lastOp' = Op("runTemplate", u, id, 200, {nextId}, {}, <<>>, 0)
    /\ UNCHANGED <<now, edits, procs>>

\* PATCH /api/templates/:id/toggle
ToggleTemplate(u, id) ==
    /\ Idle
    /\ edits < MaxToggles
    /\ edits' = edits + 1
    /\ IF id \in DOMAIN templates /\ templates[id].user = u
       THEN /\ templates' = [templates EXCEPT ![id] =
                 IF ~templates[id].isActive
                 THEN [@ EXCEPT !.isActive = TRUE,
                                !.nextRun = calculateNextRun(templates[id].recurrence, now)]
                 ELSE [@ EXCEPT !.isActive = FALSE]]
            /\ lastOp' = Op("toggleTemplate", u, id, 200, {}, {}, <<>>, 0)
       ELSE /\ UNCHANGED templates
            /\ lastOp' = Op("toggleTemplate", u, id, 404, {}, {}, <<>>, 0)
    /\ UNCHANGED <<tasks, nextId, now, procs>>

----------------------------------------------------------------------------
(* POST /api/templates/process-pending *)

\* the query as it would be without the owner filter
PendingTemplates_AnyOwner(P, u, clock) ==
    {t \in DOMAIN P : P[t].isActive /\ P[t].nextRun <= clock}

\* the pendingTemplates query
PendingTemplates(P, u, clock) ==
    {t \in DOMAIN P : P[t].user = u /\ P[t].isActive /\ P[t].nextRun <= clock}

\* the handler as it would be without the existingTask check
ExistingTask_Never(T, u, title, category, b) == FALSE

\* the existingTask query, as a truth value
ExistingTask(T, u, title, category, b) ==
    \E j \in DOMAIN T :
        /\ T[j].user = u
        /\ T[j].title = title
        /\ T[j].category = category
        /\ InRange(T[j].date, b.todayStart, b.tomorrowStart)
        /\ ~T[j].deleted

Result(t, status) == [template |-> t, status |-> status]

\* the update as it would be if the counter were left alone
Fired_NoCount(template, clock) ==
    [template EXCEPT !.lastRun = clock,
                     !.nextRun = calculateNextRun(template.recurrence, clock)]

\* the update as it would be if nextRun were left alone
Fired_KeepsNextRun(template, clock) ==
    [template EXCEPT !.lastRun = clock,
                     !.createdTasksCount = template.createdTasksCount + 1]

\* what the handler assigns to the in-memory template before template.save()
Fired(template, clock) ==
    [template EXCEPT !.lastRun = clock,
                     !.nextRun = calculateNextRun(template.recurrence, clock),
                     !.createdTasksCount = template.createdTasksCount + 1]

\* template.save(): $set of the paths the handler modified
SaveFired(P, t, doc) ==
    [i \in DOMAIN P |->
        IF i = t THEN [P[i] EXCEPT !.lastRun = doc.lastRun,
                                   !.nextRun = doc.nextRun,
                                   !.createdTasksCount = doc.createdTasksCount]
        ELSE P[i]]

\* One iteration of the for-loop over pendingTemplates, with its try/catch.
\* st carries the task collection T, the id counter nid, the template
\* collection P, the result list, the ids inserted and the writes left w
\* before one write throws (negative: none does).
ProcessOne(st, t, template, u, clock) ==
    LET b == getDayBoundaries_templates(clock)
        existing == ExistingTask(st.T, u, template.title, template.category, b)
        threwOnTask == ~existing /\ st.w = 0
        saved == IF existing
                 THEN [st EXCEPT !.results = Append(st.results, Result(t, "skipped"))]
                 ELSE [st EXCEPT
                         !.T = Insert(st.T, st.nid,
                                  NewTask(u, template.title, template.description,
                                          template.priority, template.category,
                                          b.todayStart, 0)),
                         !.nid = st.nid + 1,
                         !.created = st.created \cup {st.nid},
                         !.results = Append(st.results, Result(t, "created")),
                         !.w = st.w - 1]
    IN IF threwOnTask
       THEN [st EXCEPT !.results = Append(st.results, Result(t, "error")),
                       !.w = st.w - 1]
       ELSE IF saved.w = 0
       THEN [saved EXCEPT !.results = Append(saved.results, Result(t, "error")),
                          !.w = saved.w - 1]
       ELSE [saved EXCEPT !.P = SaveFired(saved.P, t, Fired(template, clock)),
                          !.w = saved.w - 1]

RECURSIVE ProcessLoop(_, _, _, _, _, _)
ProcessLoop(st, snapshot, order, k, u, clock) ==
    IF k > Len(order) THEN st
    ELSE ProcessLoop(ProcessOne(st, order[k], snapshot[order[k]], u, clock),
                     snapshot, order, k + 1, u, clock)

ProcessPending(u, fault) ==
    /\ Idle
    /\ \E order \in Orders(PendingTemplates(templates, u, now)) :
          LET st0 == [T |-> tasks, nid |-> nextId, P |-> templates, results |-> <<>>,
                      created |-> {}, w |-> WritesBefore(fault)]
              r == ProcessLoop(st0, templates, order, 1, u, now)
          IN /\ r.nid <= MaxId + 1
             /\ tasks' = r.T
             /\ nextId' = r.nid
             /\ templates' = r.P
             /\ lastOp' = Op("processPending", u, 0, 200, r.created,
                             {order[k] : k \in DOMAIN order}, r.results, 0)
    /\ UNCHANGED <<now, edits, procs>>

----------------------------------------------------------------------------
(* POST /api/templates/process-pending, one await at a time *)

\* the template the request is working on
Current(p) == procs[p].order[procs[p].k]

SetProc(p, rec) == [q \in DOMAIN procs |-> IF q = p THEN rec ELSE procs[q]]

\* const now = new Date(); pendingTemplates = await Template.find(...)
PPStart(u) ==
    /\ Len(procs) < MaxInFlight
    /\ \E order \in Orders(PendingTemplates(templates, u, now)) :
          procs' = Append(procs,
                     [user |-> u, now |-> now, order |-> order,
                      docs |-> [t \in {order[k] : k \in DOMAIN order} |-> templates[t]],
                      k |-> 1, pc |-> "check", results |-> <<>>])
    /\ lastOp' = Op("processPending", u, 0, 0, {}, {}, <<>>, 0)
    /\ UNCHANGED <<tasks, nextId, templates, now, edits>>

\* existingTask = await Task.findOne(...)
PPCheck(p) ==
    /\ p \in DOMAIN procs
    /\ procs[p].pc = "check"
    /\ procs[p].k <= Len(procs[p].order)
    /\ LET me == procs[p]
           doc == me.docs[Current(p)]
           b == getDayBoundaries_templates(now)
       IN IF ExistingTask(tasks, me.user, doc.title, doc.category, b)
          THEN procs' = SetProc(p, [me EXCEPT
                          !.pc = "update",
                          !.results = Append(me.results, Result(Current(p), "skipped"))])
          ELSE procs' = SetProc(p, [me EXCEPT !.pc = "save"])
    /\ UNCHANGED <<tasks, nextId, templates, now, edits, lastOp>>

\* await task.save()
PPSaveTask(p) ==
    /\ p \in DOMAIN procs
    /\ procs[p].pc = "save"
    /\ nextId <= MaxId
    /\ LET me == procs[p]
           doc == me.docs[Current(p)]
           b == getDayBoundaries_templates(now)
       IN /\ tasks' = Insert(tasks, nextId,
                         NewTask(me.user, doc.title, doc.description, doc.priority,
                                 doc.category, b.todayStart, 0))
          /\ nextId' = nextId + 1
          /\ procs' = SetProc(p, [me EXCEPT
                          !.pc = "update",
                          !.results = Append(me.results, Result(Current(p), "created"))])
    /\ UNCHANGED <<templates, now, edits, lastOp>>

\* template.lastRun = now; ...; await template.save()
PPSaveTemplate(p) ==
    /\ p \in DOMAIN procs
    /\ procs[p].pc = "update"
    /\ LET me == procs[p]
           fired == [Fired(me.docs[Current(p)], now) EXCEPT !.lastRun = me.now]
       IN /\ templates' = SaveFired(templates, Current(p), fired)
          /\ procs' = SetProc(p, [me EXCEPT !.pc = "check", !.k = me.k + 1])
    /\ UNCHANGED <<tasks, nextId, now, edits, lastOp>>

\* res.json(...)
PPRespond(p) ==
    /\ p \in DOMAIN procs
    /\ procs[p].pc = "check"
    /\ procs[p].k > Len(procs[p].order)
    /\ procs' = SetProc(p, [procs[p] EXCEPT !.pc = "done"])
    /\ lastOp' = Op("processPending", procs[p].user, 0, 200, {},
                    {procs[p].order[k] : k \in DOMAIN procs[p].order},
                    procs[p].results, 0)
    /\ UNCHANGED <<tasks, nextId, templates, now, edits>>

----------------------------------------------------------------------------
(* The clock *)

Advance(max) ==
    /\ Idle
    /\ \E k \in 0..(max - 1) :
          /\ now = ClockAt(k)
          /\ now' = ClockAt(k + 1)
    /\ lastOp' = Op("tick", "u1", 0, 0, {}, {}, <<>>, 0)
    /\ UNCHANGED <<tasks, nextId, templates, edits, procs>>

----------------------------------------------------------------------------

Init ==
    /\ tasks = <<>>
    /\ nextId = 1
    /\ templates = <<>>
    /\ now = StartTime
    /\ edits = 0
    /\ lastOp = NoOp
    /\ procs = <<>>

\* The requests below are issued by Callers; the other user only creates
\* tasks, so that documents of another owner are present in the collection.
Callers == {"u1"}

Next ==
    \/ \E in \in CreateInputs : Create(in)
    \/ \E u \in Callers, id \in Ids, body \in UpdateBodies : Update(u, id, body)
    \/ \E u \in Callers, id \in Ids : Delete(u, id)
    \/ \E u \in Callers : MoveForward(u, NoFault)
    \/ \E u \in Callers, id \in Ids : MoveBackward(u, id)
    \/ \E u \in Callers, ids \in ReorderInputs : Reorder(u, ids)
    \/ \E u \in Callers, id \in Ids : MoveUp(u, id)
    \/ \E u \in Callers, id \in Ids : MoveDown(u, id)
    \/ Advance(MaxTicks)

Spec == Init /\ [][Next]_vars

\* The template scheduler together with the task requests that decide
\* whether a firing finds its task already there.
TemplateTaskInputs ==
    {in \in CreateInputs : in.user = "u1" /\ in.title = "A" /\ in.priority = 1
                           /\ in.category = "c1" /\ in.date = 0}

NextTpl ==
    \/ \E in \in TemplateInputs : CreateTemplate(in)
    \/ \E u \in Callers, id \in 1..MaxTemplates : ToggleTemplate(u, id)
    \/ \E u \in Callers, fault \in 0..(2 * MaxTemplates) : ProcessPending(u, fault)
    \/ \E in \in TemplateTaskInputs : Create(in)
    \/ \E u \in Callers, id \in Ids : Update(u, id, [deleted |-> TRUE])
    \/ Advance(MaxTplTicks)

SpecTpl == Init /\ [][NextTpl]_vars

\* Overlapping process-pending requests (the scheduler's startup call and
\* its hourly call, or two clients), interleaved at their awaits.
ConcurrentTemplateInputs ==
    {in \in TemplateInputs : in.user = "u1" /\ in.category = "c1" /\ in.title = "A"}

NextConc ==
    \/ \E in \in ConcurrentTemplateInputs : CreateTemplate(in)
    \/ Advance(MaxTicks)
    \/ \E u \in Callers : PPStart(u)
    \/ \E p \in 1..MaxInFlight : PPCheck(p)
    \/ \E p \in 1..MaxInFlight : PPSaveTask(p)
    \/ \E p \in 1..MaxInFlight : PPSaveTemplate(p)
    \/ \E p \in 1..MaxInFlight : PPRespond(p)

SpecConc == Init /\ [][NextConc]_vars

\* The batch move while the storage layer may throw on one of its writes.
FaultTaskInputs ==
    {in \in CreateInputs : in.user = "u1" /\ in.date = 0 /\ in.priority = 1
                           /\ in.category \in {"c1", "c2"}}

NextFault ==
    \/ \E in \in FaultTaskInputs : Create(in)
    \/ \E u \in Callers, fault \in 0..(2 * MaxId) : MoveForward(u, fault)

SpecFault == Init /\ [][NextFault]_vars

\* Overlapping move-task-up / move-task-down requests, interleaved at the
\* writes of their Promise.all.
SwapTaskInputs ==
    {in \in CreateInputs : in.user = "u1" /\ in.date = 0 /\ in.category = "c1"}

NextSwap ==
    \/ \E in \in SwapTaskInputs : Create(in)
    \/ \E u \in Callers, id \in Ids, kind \in {"moveUp", "moveDown"} : SwapStart(u, id, kind)
    \/ \E p \in 1..MaxInFlight, which \in SwapWrites : SwapWrite(p, which)
    \/ \E p \in 1..MaxInFlight, which \in SwapWrites : SwapWriteThrows(p, which)
    \/ \E p \in 1..MaxInFlight : SwapRespond(p)

SpecSwap == Init /\ [][NextSwap]_vars

\* Reordering lists long enough for the cap on the new priority to apply.
ReorderTaskInputs ==
    {in \in CreateInputs : in.date = 0 /\ in.title = "A" /\ in.priority = 1
                           /\ in.category \in {"c1", "c3"}}

ReorderIds == 1..MaxReorderIds

NextReorder ==
    \/ \E in \in ReorderTaskInputs : CreateWithin(in, MaxReorderIds)
    \/ \E u \in Callers, ids \in ReorderInputsOver(ReorderIds) : Reorder(u, ids)
    \/ \E u \in Callers : ReorderNotArray(u)

SpecReorder == Init /\ [][NextReorder]_vars

\* The routes that decide what "today" is, looked at every half hour
\* across midnight and the 05:00 boundary.
WindowTaskInputs ==
    {in \in CreateInputs : in.user = "u1" /\ in.title = "A" /\ in.priority = 1
                           /\ in.category = "c1" /\ in.date = 0}

NextWindow ==
    \/ \E in \in WindowTaskInputs : Create(in)
    \/ \E u \in Callers : GetToday(u)
    \/ \E u \in Callers : ProgressToday(u)
    \/ Elapse(MaxHalfHours)

SpecWindow == Init /\ [][NextWindow]_vars

\* Creating, completing, hiding and listing the tasks of today.
ListTaskInputs ==
    {in \in CreateInputs : in.user = "u1" /\ in.title = "A" /\ in.priority = 1
                           /\ in.category # "c2" /\ in.date \in {0, MinutesPerDay}}
    \cup IncompleteCreateInputs

ListUpdateBodies ==
    {[completed |-> TRUE], [completed |-> FALSE], [deleted |-> TRUE],
     [completed |-> TRUE, completedAt |-> StartTime - MinutesPerDay]}

NextList ==
    \/ \E in \in ListTaskInputs : Create(in)
    \/ \E u \in Callers, id \in Ids, body \in ListUpdateBodies :
          UpdateWithin(u, id, body, MaxListEdits)
    \/ \E u \in Callers, id \in Ids : Delete(u, id)
    \/ \E u \in Callers : MoveForward(u, NoFault)
    \/ \E u \in Callers, id \in Ids : MoveBackward(u, id)
    \/ \E u \in Callers : GetToday(u)
    \/ Advance(MaxTicks)

SpecList == Init /\ [][NextList]_vars

\* calculateNextRun over the recurrence types, looked at on a Wednesday,
\* a Monday and the last day of two months, before, at and after 05:00.
RecurDays == {0, 5, 30, 58}

RecurClocks ==
    {d * MinutesPerDay + 4 * MinutesPerHour + MinutesPerHour \div 2 : d \in RecurDays}

RecurRecurrences ==
    {Recurrence("daily", 1, {}, 0, 5, 0),
     Recurrence("daily", 2, {}, 0, 5, 0),
     Recurrence("custom", 1, {}, 0, 5, 0),
     Recurrence("custom", 2, {}, 0, 5, 0),
     Recurrence("weekly", 1, {}, 0, 5, 0),
     Recurrence("weekly", 1, {1}, 0, 5, 0),
     Recurrence("weekly", 1, {3}, 0, 5, 0),
     Recurrence("weekly", 2, {1, 4}, 0, 5, 0),
     Recurrence("monthly", 1, {}, 0, 5, 0),
     Recurrence("monthly", 1, {}, 1, 5, 0),
     Recurrence("monthly", 1, {}, 31, 5, 0),
     Recurrence("monthly", 2, {}, 31, 5, 0)}

RecurTemplateInputs ==
    {[user |-> "u1", title |-> "A", priority |-> 2, category |-> "c1",
      recurrence |-> r] : r \in RecurRecurrences}

RecurUpdateBodies ==
    {[description |-> "d2"],
     [recurrence |-> Recurrence("daily", 1, {}, 0, 5, 0)],
     [recurrence |-> Recurrence("monthly", 1, {}, 31, 5, 0)]}

\* half an hour passes, until 05:30
Later ==
    /\ Idle
    /\ now % MinutesPerDay < BoundaryHour * MinutesPerHour + MinutesPerHour \div 2
    /\ now' = now + MinutesPerHour \div 2
    /\ lastOp' = Op("tick", "u1", 0, 0, {}, {}, <<>>, 0)
    /\ UNCHANGED <<tasks, nextId, templates, edits, procs>>

InitRecur ==
    /\ tasks = <<>>
    /\ nextId = 1
    /\ templates = <<>>
    /\ now \in RecurClocks
    /\ edits = 0
    /\ lastOp = NoOp
    /\ procs = <<>>

NextRecur ==
    \/ \E in \in RecurTemplateInputs : CreateTemplateWithin(in, MaxRecurTemplates)
    \/ \E u \in Callers, id \in 1..MaxRecurTemplates, body \in RecurUpdateBodies :
          UpdateTemplate(u, id, body)
    \/ \E u \in Callers, id \in 1..MaxRecurTemplates : ToggleTemplate(u, id)
    \/ \E u \in Callers, id \in 1..MaxRecurTemplates : RunTemplate(u, id)
    \/ \E u \in Callers : ProcessPending(u, NoFault)
    \/ Later

SpecRecur == InitRecur /\ [][NextRecur]_vars

----------------------------------------------------------------------------
(* Vocabulary of the properties *)

\* documents of owner u with the given title and category dated in [lo, hi)
Keyed(T, u, title, category, lo, hi) ==
    {j \in DOMAIN T :
        /\ T[j].user = u
        /\ T[j].title = title
        /\ T[j].category = category
        /\ lo <= T[j].date
        /\ T[j].date < hi}

Today == getDayBoundaries(now)

\* the step just taken served this route
Did(kind) == lastOp'.kind = kind

----------------------------------------------------------------------------
(* Move to tomorrow and back *)

\* C1: move-to-tomorrow followed at once by move-back-to-today on a copy it
\* produced leaves, in today's window, exactly one record with the copy's
\* title and category: the moved-back task itself, active (not moved, not
\* deleted), with the title, category and priority of the source it was
\* copied from.  Being a property of every such step it covers a second
\* round trip as well.
C1_RoundTripStep ==
    (/\ lastOp.kind = "moveForward"
     /\ Did("moveBackward")
     /\ lastOp'.status = 200
     /\ lastOp'.id \in lastOp.created)
    => LET c == lastOp'.id
           s == tasks[c].originalTaskId
       IN /\ s \in DOMAIN tasks
          /\ c \in DOMAIN tasks'
          /\ Keyed(tasks', lastOp'.user, tasks[s].title, tasks[s].category,
                   Today.todayStart, Today.tomorrowStart) = {c}
          /\ ~tasks'[c].moved
          /\ ~tasks'[c].deleted
          /\ tasks'[c].priority = tasks[s].priority

C1_RoundTrip == [][C1_RoundTripStep]_vars

C1_SecondRoundTrip ==
    /\ lastOp.kind = "moveBackward"
    /\ lastOp.status = 200
    /\ lastOp.cyc = 2

\* C2: a successful move-to-tomorrow marks every task of the caller's
\* current window that was not completed, not moved and not deleted; and
\* for each (title, category) among them it inserts no task when a
\* non-deleted task with that key was already in the next window, and
\* otherwise exactly one, dated to the next window's start and copied from
\* one of the sources with that key (title, description, priority,
\* category, originalTaskId = that source).
C2_ForwardStep ==
    (Did("moveForward") /\ lastOp'.status = 200)
    => LET u == lastOp'.user
           sources == {i \in DOMAIN tasks :
                          /\ tasks[i].user = u
                          /\ Today.todayStart <= tasks[i].date
                          /\ tasks[i].date < Today.tomorrowStart
                          /\ ~tasks[i].completed
                          /\ ~tasks[i].moved
                          /\ ~tasks[i].deleted}
           inserted == DOMAIN tasks' \ DOMAIN tasks
           Copies(i) == {n \in inserted : /\ tasks'[n].title = tasks[i].title
                                          /\ tasks'[n].category = tasks[i].category}
           Blocked(i) == \E j \in Keyed(tasks, u, tasks[i].title, tasks[i].category,
                                        Today.tomorrowStart, Today.dayAfterTomorrowStart) :
                            ~tasks[j].deleted
       IN /\ \A i \in sources : i \in DOMAIN tasks' /\ tasks'[i].moved
          /\ lastOp'.marked = sources
          /\ \A i \in sources :
                IF Blocked(i) THEN Copies(i) = {}
                ELSE /\ Cardinality(Copies(i)) = 1
                     /\ \A n \in Copies(i) :
                           \E src \in sources :
                              tasks'[n] = [user |-> u,
                                           title |-> tasks[i].title,
                                           description |-> tasks[src].description,
                                           priority |-> tasks[src].priority,
                                           category |-> tasks[i].category,
                                           completed |-> FALSE,
                                           date |-> Today.tomorrowStart,
                                           completedAt |-> 0,
                                           moved |-> FALSE,
                                           deleted |-> FALSE,
                                           originalTaskId |-> src]
                              /\ tasks[src].title = tasks[i].title
                              /\ tasks[src].category = tasks[i].category
          /\ \A n \in inserted : \E i \in sources : n \in Copies(i)

C2_Forward == [][C2_ForwardStep]_vars

\* two sources with one (title, category) were marked and one copy was made
C2_TwoSourcesOneCopy ==
    /\ lastOp.kind = "moveForward"
    /\ lastOp.status = 200
    /\ Cardinality(lastOp.created) = 1
    /\ \E i, j \in lastOp.marked :
          /\ i # j
          /\ i \in DOMAIN tasks /\ j \in DOMAIN tasks
          /\ tasks[i].title = tasks[j].title
          /\ tasks[i].category = tasks[j].category

\* C3: move-to-tomorrow removes no document and changes no field of any
\* existing document except moved, which it sets only on documents it
\* reports as moved; every document it does not report (completed, already
\* moved, deleted, of another window or owner) is left exactly as it was.
C3_ForwardFrameStep ==
    Did("moveForward")
    => \A i \in DOMAIN tasks :
          /\ i \in DOMAIN tasks'
          /\ \/ tasks'[i] = tasks[i]
             \/ /\ i \in lastOp'.marked
                /\ tasks[i].user = lastOp'.user
                /\ ~tasks[i].completed /\ ~tasks[i].moved /\ ~tasks[i].deleted
                /\ Today.todayStart <= tasks[i].date
                /\ tasks[i].date < Today.tomorrowStart
                /\ tasks'[i] = [tasks[i] EXCEPT !.moved = TRUE]

C3_ForwardFrame == [][C3_ForwardFrameStep]_vars

\* a run marked a source while a completed task of the same window and a
\* task of the next window were there to be left alone
C3_MarkedBesideOthers ==
    /\ lastOp.kind = "moveForward"
    /\ lastOp.marked # {}
    /\ \E i, j \in DOMAIN tasks \ (lastOp.marked \cup lastOp.created) :
          /\ tasks[i].completed
          /\ tasks[i].user = lastOp.user
          /\ Today.todayStart <= tasks[i].date /\ tasks[i].date < Today.tomorrowStart
          /\ tasks[j].date >= Today.tomorrowStart

\* the documents a successful move-back-to-today removed
Purged == DOMAIN tasks \ DOMAIN tasks'

\* what a successful move-back-to-today does to the target and the rest
MovedBackKeeping(gone) ==
    LET id == lastOp'.id
    IN /\ Purged = gone
       /\ id \in DOMAIN tasks'
       /\ tasks'[id] = [tasks[id] EXCEPT !.date = Today.todayStart,
                                         !.originalTaskId = 0]
       /\ \A i \in DOMAIN tasks' \ {id} : tasks'[i] = tasks[i]

\* C4 as stated: a successful move-back-to-today removes exactly the other
\* non-deleted tasks of today's window with the target's title and category
\* (hidden moved ones included), then re-dates the target to today's start
\* and clears its originalTaskId, leaving everything else as it was.
C4_PurgesActiveOnlyStep ==
    (Did("moveBackward") /\ lastOp'.status = 200)
    => LET id == lastOp'.id
       IN MovedBackKeeping(
             {j \in Keyed(tasks, lastOp'.user, tasks[id].title, tasks[id].category,
                          Today.todayStart, Today.tomorrowStart) \ {id} :
                 ~tasks[j].deleted})

C4_PurgesActiveOnly == [][C4_PurgesActiveOnlyStep]_vars

\* C4 amended: a successful move-back-to-today removes exactly the other
\* tasks of the caller in today's window with the target's title and
\* category, whatever their moved, completed and deleted flags, then
\* re-dates the target to today's start and clears its originalTaskId,
\* keeping its id and leaving everything else as it was.
C4_PurgesSameKeyStep ==
    (Did("moveBackward") /\ lastOp'.status = 200)
    => LET id == lastOp'.id
       IN MovedBackKeeping(
             Keyed(tasks, lastOp'.user, tasks[id].title, tasks[id].category,
                   Today.todayStart, Today.tomorrowStart) \ {id})

C4_PurgesSameKey == [][C4_PurgesSameKeyStep]_vars

\* a copy was moved back right after the run that made it, so its hidden
\* source was in today's window to be purged
C4_MovedBackOverHiddenSource ==
    /\ lastOp.kind = "moveBackward"
    /\ lastOp.status = 200
    /\ lastOp.cyc = 1
    /\ lastOp.id \in DOMAIN tasks
    /\ tasks[lastOp.id].date = Today.todayStart
    /\ tasks[lastOp.id].originalTaskId = 0

\* C5: move-back-to-today on a task of the caller whose date is outside
\* [tomorrowStart, tomorrowStart + 1 day) answers 400 (invalid operation)
\* and leaves the collection as it was.
C5_NotTomorrowStep ==
    (/\ Did("moveBackward")
     /\ lastOp'.id \in DOMAIN tasks
     /\ tasks[lastOp'.id].user = lastOp'.user
     /\ ~(/\ Today.tomorrowStart <= tasks[lastOp'.id].date
          /\ tasks[lastOp'.id].date < Today.tomorrowStart + MinutesPerDay))
    => lastOp'.status = 400 /\ tasks' = tasks

C5_NotTomorrow == [][C5_NotTomorrowStep]_vars

\* the request was refused for a task dated after the tomorrow window
C5_RefusedDayAfter ==
    /\ lastOp.kind = "moveBackward"
    /\ lastOp.status = 400
    /\ lastOp.id \in DOMAIN tasks
    /\ tasks[lastOp.id].date >= Today.dayAfterTomorrowStart

\* C6: deleting a task of the tomorrow window that is a forward-moved copy
\* whose source is still hidden (moved = true) in today's window, the
\* source being the only record of today's window with the copy's title
\* and category, removes that source too: afterwards today's window holds
\* no record with that title and category.
C6_DeleteCopyStep ==
    (/\ Did("delete")
     /\ lastOp'.status = 200
     /\ lastOp'.id \in DOMAIN tasks
     /\ Today.tomorrowStart <= tasks[lastOp'.id].date
     /\ tasks[lastOp'.id].date < Today.dayAfterTomorrowStart
     /\ tasks[lastOp'.id].originalTaskId # 0
     /\ Keyed(tasks, lastOp'.user, tasks[lastOp'.id].title, tasks[lastOp'.id].category,
              Today.todayStart, Today.tomorrowStart) = {tasks[lastOp'.id].originalTaskId}
     /\ tasks[tasks[lastOp'.id].originalTaskId].moved)
    => Keyed(tasks', lastOp'.user, tasks[lastOp'.id].title, tasks[lastOp'.id].category,
             Today.todayStart, Today.tomorrowStart) = {}

C6_DeleteCopyRemovesSource == [][C6_DeleteCopyStep]_vars

----------------------------------------------------------------------------
(* Template firing *)

\* the templates a process-pending call of u finds due
Due(u) ==
    {t \in DOMAIN templates :
        /\ templates[t].user = u
        /\ templates[t].isActive
        /\ templates[t].nextRun <= now}

\* the result list reports this status for template t
Reported(op, t, status) ==
    \E k \in DOMAIN op.results :
        op.results[k].template = t /\ op.results[k].status = status

\* non-deleted tasks of u with template t's title and category in today's window
LiveToday(T, u, t) ==
    {j \in Keyed(T, u, templates[t].title, templates[t].category,
                 Today.todayStart, Today.tomorrowStart) : ~T[j].deleted}

\* tasks the step inserted with template t's title and category
InsertedFor(u, t) ==
    {n \in DOMAIN tasks' \ DOMAIN tasks :
        /\ tasks'[n].user = u
        /\ tasks'[n].title = templates[t].title
        /\ tasks'[n].category = templates[t].category}

\* C7: process-pending, for every active template of the caller with
\* nextRun <= now whose processing did not throw, inserts no task with the
\* template's title and category when a non-deleted one is already in the
\* current window and otherwise exactly one, dated to the window start; in
\* both cases it sets lastRun = now, recomputes nextRun (to an instant
\* after now) and adds exactly 1 to createdTasksCount.
C7_FiringStep ==
    Did("processPending")
    => \A t \in Due(lastOp'.user) :
          ~Reported(lastOp', t, "error")
          => /\ t \in DOMAIN templates'
             /\ templates'[t].lastRun = now
             /\ templates'[t].nextRun = calculateNextRun(templates[t].recurrence, now)
             /\ templates'[t].nextRun > now
             /\ templates'[t].createdTasksCount = templates[t].createdTasksCount + 1
             /\ IF LiveToday(tasks, lastOp'.user, t) # {}
                THEN /\ InsertedFor(lastOp'.user, t) = {}
                     /\ Reported(lastOp', t, "skipped")
                ELSE /\ Cardinality(InsertedFor(lastOp'.user, t)) = 1
                     /\ \A n \in InsertedFor(lastOp'.user, t) :
                           /\ tasks'[n].date = Today.todayStart
                           /\ ~tasks'[n].deleted /\ ~tasks'[n].moved
                           /\ ~tasks'[n].completed

C7_Firing == [][C7_FiringStep]_vars

\* one call took the create branch for one template and the skip branch
\* for another, and advanced both
C7_CreatedAndSkipped ==
    /\ lastOp.kind = "processPending"
    /\ \E t1, t2 \in lastOp.marked :
          /\ Reported(lastOp, t1, "created")
          /\ Reported(lastOp, t2, "skipped")
          /\ ~Reported(lastOp, t1, "error")
          /\ ~Reported(lastOp, t2, "error")
          /\ templates[t1].lastRun = now
          /\ templates[t2].lastRun = now

\* C8: a process-pending call that directly follows one that fired a
\* template (same caller, same clock) inserts no task with that template's
\* title and category; and no process-pending call raises the number of
\* non-deleted tasks with a template's title and category in the current
\* window above one, so calls repeated within a window leave at most one.
C8_RepeatStep ==
    Did("processPending")
    => /\ lastOp.kind = "processPending" /\ lastOp.user = lastOp'.user
          => \A t \in lastOp.marked :
                (t \in DOMAIN templates /\ ~Reported(lastOp, t, "error"))
                => /\ InsertedFor(lastOp'.user, t) = {}
                   /\ t \notin lastOp'.marked
       /\ \A t \in DOMAIN templates :
             templates[t].user = lastOp'.user
             => \/ Cardinality(LiveToday(tasks', lastOp'.user, t)) <= 1
                \/ LiveToday(tasks', lastOp'.user, t) = LiveToday(tasks, lastOp'.user, t)

C8_Repeat == [][C8_RepeatStep]_vars

\* a template came due a second time inside one window and the call skipped
\* it, the task of its first firing being the only one of its key there
C8_SecondFiringSkipped ==
    /\ lastOp.kind = "processPending"
    /\ \E t \in lastOp.marked :
          /\ Reported(lastOp, t, "skipped")
          /\ templates[t].createdTasksCount = 2
          /\ templates[t].lastRun = now
          /\ Cardinality(LiveToday(tasks, lastOp.user, t)) = 1

\* C10: the result list of a process-pending call has exactly one entry per
\* due template, a template whose processing threw being reported with
\* status "error", and every other due template is processed.
C10_OneEntryPerTemplate ==
    lastOp.kind = "processPending"
    => /\ Len(lastOp.results) = Cardinality(lastOp.marked)
       /\ \A t \in lastOp.marked :
             Cardinality({k \in DOMAIN lastOp.results :
                             lastOp.results[k].template = t}) = 1

\* every request in flight has answered
AllDone == \A p \in DOMAIN procs : procs[p].pc = "done"

\* C9: when process-pending requests overlap, at most one task per
\* template (title, category) is created in the current window, and once
\* all have answered every fired template is as a sequential execution
\* leaves it: fired once (createdTasksCount = 1 here, no template having
\* fired before) with nextRun recomputed.
C9_OverlapAsSequential ==
    /\ \A t \in DOMAIN templates :
          Cardinality(LiveToday(tasks, templates[t].user, t)) <= 1
    /\ (AllDone /\ Len(procs) = MaxInFlight)
       => \A t \in DOMAIN templates :
             templates[t].lastRun # 0
             => /\ templates[t].createdTasksCount = 1
                /\ templates[t].nextRun = calculateNextRun(templates[t].recurrence, now)

----------------------------------------------------------------------------
(* Failure inside the batch move *)

\* C11: in the batch move-to-tomorrow a storage failure while handling one
\* task does not abort the batch: of the tasks that were eligible (today's
\* window, not completed, not moved, not deleted) at most the one whose
\* write failed is left unmarked; every other one is marked moved and has a
\* non-deleted task with its title and category in tomorrow's window.
C11_FailureIsolatedStep ==
    Did("moveForward") =>
        LET eligible == Uncompleted(tasks, lastOp'.user, Today)
            handled == {i \in eligible :
                          /\ tasks'[i].moved
                          /\ ExistsTomorrow(tasks', lastOp'.user, tasks[i].title,
                                            tasks[i].category, Today)}
        IN Cardinality(eligible \ handled) <= 1

C11_FailureIsolated == [][C11_FailureIsolatedStep]_vars

----------------------------------------------------------------------------
(* Priorities *)

\* how many of the documents S carry each priority value: the multiset of
\* their priorities
PriorityCount(T, S) ==
    [v \in Priorities |-> Cardinality({i \in S : T[i].priority = v})]

\* C12: a priority swap is atomic.  No state has exactly one of the two
\* priority writes of a swap applied, and once every overlapping swap has
\* answered, the priorities are those of the swaps run one after the other,
\* which in particular hold the same multiset of values as before them.
C12_SwapAtomic ==
    /\ \A p \in DOMAIN procs :
          Cardinality(procs[p].settled \ procs[p].failed) # 1
    /\ (procs # <<>> /\ AllDone)
       => PriorityCount(tasks, DOMAIN tasks) = PriorityCount(procs[1].before, DOMAIN tasks)

\* the step just taken was a move-task-up or move-task-down answered 200
Swapped == (Did("moveUp") \/ Did("moveDown")) /\ lastOp'.status = 200

\* today's active list as the swap handlers read it before the step
ListBefore == SortedByPriority(tasks, TodayTasks(tasks, lastOp'.user, Today))

\* the list position the target was swapped with
NeighbourIndex ==
    IF lastOp'.kind = "moveUp" THEN IndexOf(ListBefore, lastOp'.id) - 1
    ELSE IndexOf(ListBefore, lastOp'.id) + 1

\* C13: a successful moveUp or moveDown, run without interference,
\* conserves the multiset of priority values of today's active tasks and
\* changes no task other than the target and its adjacent neighbour in the
\* (priority ascending, id ascending) order.
C13_SwapConservesStep ==
    Swapped =>
        /\ PriorityCount(tasks', TodayTasks(tasks, lastOp'.user, Today))
             = PriorityCount(tasks, TodayTasks(tasks, lastOp'.user, Today))
        /\ DOMAIN tasks' = DOMAIN tasks
        /\ \A i \in DOMAIN tasks :
              i \notin {lastOp'.id, ListBefore[NeighbourIndex]} => tasks'[i] = tasks[i]

C13_SwapConserves == [][C13_SwapConservesStep]_vars

\* a swap of two different values in a list of three has been answered
C13_SwappedAmongThree ==
    /\ lastOp.kind = "moveUp"
    /\ lastOp.status = 200
    /\ Cardinality(TodayTasks(tasks, lastOp.user, Today)) = 3
    /\ tasks[lastOp.id].priority = 1
    /\ \A j \in TodayTasks(tasks, lastOp.user, Today) \ {lastOp.id} : tasks[j].priority = 2

\* document i is in today's active list of owner u
ActiveToday(T, u, i) ==
    /\ i \in DOMAIN T
    /\ T[i].user = u
    /\ ~T[i].moved
    /\ ~T[i].deleted
    /\ Today.todayStart <= T[i].date
    /\ T[i].date < Today.tomorrowStart

\* i comes before j in the (priority ascending, id ascending) order
Precedes(T, i, j) ==
    \/ T[i].priority < T[j].priority
    \/ (T[i].priority = T[j].priority /\ i < j)

\* C14: moveUp on the first task and moveDown on the last task of today's
\* active list ordered by (priority ascending, id ascending) fail with
\* status 400 and change nothing; moveUp or moveDown on a task that is not
\* in today's active list (unknown, other owner, moved, deleted, other
\* window) fails with status 404 and changes nothing.
C14_SwapRefusedStep ==
    (Did("moveUp") \/ Did("moveDown")) =>
        LET u == lastOp'.user
            id == lastOp'.id
            first == \A j \in DOMAIN tasks : ActiveToday(tasks, u, j) => ~Precedes(tasks, j, id)
            last == \A j \in DOMAIN tasks : ActiveToday(tasks, u, j) => ~Precedes(tasks, id, j)
        IN /\ ~ActiveToday(tasks, u, id) => (lastOp'.status = 404 /\ tasks' = tasks)
           /\ (ActiveToday(tasks, u, id) /\ lastOp'.kind = "moveUp" /\ first)
                => (lastOp'.status = 400 /\ tasks' = tasks)
           /\ (ActiveToday(tasks, u, id) /\ lastOp'.kind = "moveDown" /\ last)
                => (lastOp'.status = 400 /\ tasks' = tasks)

ListAfter == SortedByPriority(tasks', TodayTasks(tasks', lastOp'.user, Today))

\* C15: after a successful moveUp the task is one position higher, and
\* after a successful moveDown one position lower, in today's active list
\* ordered by (priority ascending, id ascending), also when adjacent tasks
\* share a priority value.
C15_SwapMovesStep ==
    Swapped =>
        IndexOf(ListAfter, lastOp'.id) = NeighbourIndex

C15_SwapMoves == [][C15_SwapMovesStep]_vars

----------------------------------------------------------------------------
(* Reorder *)

\* every id of the sequence names a different task of owner u
AllOwned(T, u, ids) ==
    /\ Len(ids) > 0
    /\ \A k \in DOMAIN ids : ids[k] \in DOMAIN T /\ T[ids[k]].user = u
    /\ \A k, l \in DOMAIN ids : ids[k] = ids[l] => k = l

\* the priority the claim gives to the task at position k (counted from 1)
Saturated(k) == IF k < 3 THEN k ELSE 3

\* C16: reorder(orderedTaskIds) with N ids all owned by the caller sets
\* the priority of the task at index i to min(i+1, 3) for every i in
\* 0..N-1 (so four tasks get 1,2,3,3) and changes nothing else.
C16_ReorderAssignsStep ==
    \A u \in Callers, ids \in ReorderInputsOver(ReorderIds) :
        (Reorder(u, ids) /\ AllOwned(tasks, u, ids)) =>
            /\ lastOp'.status = 200
            /\ DOMAIN tasks' = DOMAIN tasks
            /\ \A k \in DOMAIN ids :
                  tasks'[ids[k]] = [tasks[ids[k]] EXCEPT !.priority = Saturated(k)]
            /\ \A i \in DOMAIN tasks :
                  (\A k \in DOMAIN ids : ids[k] # i) => tasks'[i] = tasks[i]

C17_ReorderRejectsStep ==
    /\ \A u \in Callers, ids \in ReorderInputsOver(ReorderIds) :
          (Reorder(u, ids) /\ ~AllOwned(tasks, u, ids)) =>
              (lastOp'.status = 400 /\ tasks' = tasks)
    /\ \A u \in Callers :
          ReorderNotArray(u) => (lastOp'.status = 400 /\ tasks' = tasks)

C17_ReorderRejects == [][C17_ReorderRejectsStep]_vars

\* a reorder has been refused while the collection holds tasks of the
\* caller and of another owner
C17_RefusedBesideForeign ==
    /\ lastOp.kind = "reorder"
    /\ lastOp.status = 400
    /\ \E i, j \in DOMAIN tasks :
          tasks[i].user = lastOp.user /\ tasks[j].user # lastOp.user

\* the priority values of the active (not moved, not deleted) tasks of
\* owner u in the window that holds the date d
ActivePriorities(T, u, d) ==
    LET w == getDayBoundaries(d)
    IN {T[i].priority : i \in {j \in DOMAIN T :
                                  /\ T[j].user = u
                                  /\ ~T[j].moved
                                  /\ ~T[j].deleted
                                  /\ w.todayStart <= T[j].date
                                  /\ T[j].date < w.tomorrowStart}}

\* C18: in every reachable state, within one owner and window the
\* priority values of the active tasks form a contiguous ascending
\* sequence: no value between two of them is missing.
C18_ContiguousPriorities ==
    \A i \in DOMAIN tasks :
        LET V == ActivePriorities(tasks, tasks[i].user, tasks[i].date)
        IN \A lo \in V, hi \in V, v \in Priorities :
              (lo < v /\ v < hi) => v \in V

----------------------------------------------------------------------------
(* The day window *)

\* C19: the day window starts at 05:00 of the reference's calendar date
\* when its hour is >= 5 and at 05:00 of the previous calendar date when
\* its hour is < 5; the reference lies in [windowStart, windowEnd); and
\* windowEnd is exactly 24 hours after windowStart.  Stated of the
\* boundaries GET /today reports for the clock of its call.
C19_WindowOfReference ==
    lastOp.kind = "getToday" =>
        LET windowStart == lastOp.results[1]
            windowEnd == lastOp.results[2]
            date == now \div MinutesPerDay
            hour == (now - date * MinutesPerDay) \div MinutesPerHour
            fiveOf(d) == d * MinutesPerDay + BoundaryHour * MinutesPerHour
        IN /\ hour >= BoundaryHour => windowStart = fiveOf(date)
           /\ hour < BoundaryHour => windowStart = fiveOf(date - 1)
           /\ windowStart <= now
           /\ now < windowEnd
           /\ windowEnd = windowStart + 24 * MinutesPerHour

\* the boundaries have been reported between midnight and 05:00 of the
\* calendar day after the start
C19_ReportedBeforeFive ==
    /\ lastOp.kind = "getToday"
    /\ now \div MinutesPerDay = StartTime \div MinutesPerDay + 1
    /\ now % MinutesPerDay < BoundaryHour * MinutesPerHour

\* C20: every call site that decides which tasks belong to "today" (task
\* creation default date, task listing, move operations, template firing,
\* analytics and today's progress counts) computes the same [start, end)
\* interval for the same reference instant, the 05:00-based window.
C20_SameWindowEverywhere ==
    /\ getDayBoundaries_templates(now).todayStart = Today.todayStart
    /\ getDayBoundaries_templates(now).tomorrowStart = Today.tomorrowStart
    /\ getDayBoundaries_analytics(now).todayStart = Today.todayStart
    /\ getDayBoundaries_analytics(now).tomorrowStart = Today.tomorrowStart
    /\ lastOp.kind = "getToday" => lastOp.results = <<Today.todayStart, Today.tomorrowStart>>
    /\ lastOp.kind = "progressToday" => lastOp.results = <<Today.todayStart, Today.tomorrowStart>>

----------------------------------------------------------------------------
(* Creating, listing and completing *)

\* 05:00 of the calendar date of t, or of the date before when t is
\* earlier than 05:00
WindowStart(t) ==
    LET date == t \div MinutesPerDay
        hour == (t - date * MinutesPerDay) \div MinutesPerHour
    IN (IF hour < BoundaryHour THEN date - 1 ELSE date) * MinutesPerDay
         + BoundaryHour * MinutesPerHour

\* document i of owner u is dated to the start of the window of t and is
\* neither deleted nor moved forward
DefaultDated(T, u, i, t) ==
    /\ i \in DOMAIN T
    /\ T[i].user = u
    /\ T[i].date = WindowStart(t)
    /\ ~T[i].deleted
    /\ ~T[i].moved

\* C21: a task created without an explicit date is dated to the current
\* window's start, and the today listing issued afterwards in the same
\* window returns it, until it is deleted or moved forward: no request
\* takes it out of the window otherwise.
C21_CreatedIsListedStep ==
    /\ \A in \in ListTaskInputs :
          (Create(in) /\ lastOp'.status = 201 /\ in.date = 0)
             => DefaultDated(tasks', in.user, nextId, now)
    /\ Did("getToday") =>
          \A i \in DOMAIN tasks :
             DefaultDated(tasks, lastOp'.user, i, now) => i \in lastOp'.marked
    /\ WindowStart(now') = WindowStart(now) =>
          \A i \in DOMAIN tasks, u \in Users :
             (/\ DefaultDated(tasks, u, i, now)
              /\ i \in DOMAIN tasks'
              /\ ~tasks'[i].deleted
              /\ ~tasks'[i].moved) => DefaultDated(tasks', u, i, now')

C21_CreatedIsListed == [][C21_CreatedIsListedStep]_vars

\* the listing has returned a completed task created in this window while
\* another one is hidden by moved = true
C21_ListedBesideHidden ==
    /\ lastOp.kind = "getToday"
    /\ \E i \in lastOp.marked : tasks[i].completed /\ tasks[i].date = WindowStart(now)
    /\ \E j \in DOMAIN tasks : j \notin lastOp.marked /\ tasks[j].moved

\* the category id names an active category of owner u
OwnsActiveCategory(u, c) ==
    \E k \in DOMAIN CategoryDocs :
        k = c /\ CategoryDocs[k].user = u /\ CategoryDocs[k].isActive

\* C22: create answers 400 and inserts no task when title, priority or
\* category is missing, or when the category does not resolve to an active
\* category owned by the calling user (unknown, inactive, or owned by
\* another user).
C22_CreateRejectsStep ==
    \A in \in ListTaskInputs :
        (/\ Create(in)
         /\ \/ in.title = ""
            \/ in.priority = 0
            \/ in.category = ""
            \/ ~OwnsActiveCategory(in.user, in.category))
        => (lastOp'.status = 400 /\ tasks' = tasks /\ nextId' = nextId)

C23_CompletedAtKeptStep ==
    /\ \A u \in Callers, id \in Ids, body \in ListUpdateBodies :
          (UpdateWithin(u, id, body, MaxListEdits) /\ lastOp'.status = 200) =>
              /\ ("completed" \in DOMAIN body /\ "completedAt" \notin DOMAIN body) =>
                    IF body.completed
                    THEN tasks'[id].completed /\ tasks'[id].completedAt = now
                    ELSE ~tasks'[id].completed
                         /\ tasks'[id].completedAt = tasks[id].completedAt
    /\ \A i \in DOMAIN tasks :
          (tasks[i].completedAt # 0 /\ i \in DOMAIN tasks') => tasks'[i].completedAt # 0

C23_CompletedAtKept == [][C23_CompletedAtKeptStep]_vars

\* a task completed at an earlier instant has been un-completed and still
\* carries that instant
C23_UncompletedKeepsStamp ==
    /\ lastOp.kind = "update"
    /\ lastOp.status = 200
    /\ lastOp.id \in DOMAIN tasks
    /\ ~tasks[lastOp.id].completed
    /\ tasks[lastOp.id].completedAt = StartTime
    /\ now > StartTime

----------------------------------------------------------------------------
(* Owners *)

\* the routes that address or sweep tasks
TaskRequests ==
    {"update", "delete", "moveForward", "moveBackward", "moveUp", "moveDown", "reorder"}

\* C24: no task request of one owner (update, delete, moveForward,
\* moveBackward, moveUp, moveDown, reorder) modifies or deletes a task of
\* a different owner; addressing another owner's task id answers 404 (400
\* for reorder) and changes nothing.
C24_OwnerIsolationStep ==
    lastOp'.kind \in TaskRequests =>
        LET u == lastOp'.user
        IN /\ \A i \in DOMAIN tasks :
                 tasks[i].user # u => (i \in DOMAIN tasks' /\ tasks'[i] = tasks[i])
           /\ (/\ lastOp'.kind \notin {"moveForward", "reorder"}
               /\ lastOp'.id \in DOMAIN tasks
               /\ tasks[lastOp'.id].user # u)
              => (lastOp'.status = 404 /\ tasks' = tasks)
           /\ lastOp'.kind = "reorder" => \A ids \in ReorderInputs :
                 (/\ Reorder(u, ids)
                  /\ \E k \in DOMAIN ids :
                        ids[k] \in DOMAIN tasks /\ tasks[ids[k]].user # u)
                 => (lastOp'.status = 400 /\ tasks' = tasks)

C24_OwnerIsolation == [][C24_OwnerIsolationStep]_vars

\* a delete addressed to another owner's task has been refused while the
\* caller has a task of their own
C24_RefusedForeignDelete ==
    /\ lastOp.kind = "delete"
    /\ lastOp.status = 404
    /\ lastOp.id \in DOMAIN tasks
    /\ tasks[lastOp.id].user # lastOp.user
    /\ \E j \in DOMAIN tasks : tasks[j].user = lastOp.user

----------------------------------------------------------------------------
(* Recurrence *)

\* the step just taken inserted template t or gave it another nextRun
Rescheduled(t) ==
    /\ t \in DOMAIN templates'
    /\ (t \in DOMAIN templates => templates'[t].nextRun # templates[t].nextRun)

\* the configured time on the calendar date of t
AtConfiguredTime(r, t) ==
    (t \div MinutesPerDay) * MinutesPerDay + r.hour * MinutesPerHour + r.minute

\* C25: for a daily or custom template calculateNextRun returns today's
\* date at the configured hour:minute when that instant is strictly after
\* now, and otherwise that instant advanced by interval days; daily and
\* custom give the same result for the same inputs.
C25_DailyNextRunStep ==
    \A t \in DOMAIN templates' :
        (Rescheduled(t) /\ templates'[t].recurrence.type \in {"daily", "custom"}) =>
            LET r == templates'[t].recurrence
                candidate == AtConfiguredTime(r, now)
            IN templates'[t].nextRun =
                  IF candidate > now THEN candidate
                  ELSE candidate + r.interval * MinutesPerDay

C25_DailyNextRun == [][C25_DailyNextRunStep]_vars

\* a custom template with interval 2 has been scheduled at 05:00 sharp, the
\* configured time, for two days later
C25_ScheduledAtConfiguredTime ==
    \E t \in DOMAIN templates :
        /\ templates[t].recurrence.type = "custom"
        /\ templates[t].recurrence.interval = 2
        /\ now = AtConfiguredTime(templates[t].recurrence, now)
        /\ templates[t].nextRun = now + 2 * MinutesPerDay

\* C26: for a weekly template calculateNextRun returns the earliest
\* instant at the configured time, among today and the following 13 days,
\* whose weekday is in daysOfWeek and which is strictly after now; with no
\* daysOfWeek configured it behaves as daysOfWeek = [Monday].
C26_WeeklyNextRunStep ==
    \A t \in DOMAIN templates' :
        (Rescheduled(t) /\ templates'[t].recurrence.type = "weekly") =>
            LET r == templates'[t].recurrence
                days == IF r.daysOfWeek = {} THEN {1} ELSE r.daysOfWeek
                candidates == {AtConfiguredTime(r, now) + i * MinutesPerDay : i \in 0..13}
                fitting == {c \in candidates : getDay(c) \in days /\ c > now}
            IN /\ templates'[t].nextRun \in fitting
               /\ \A c \in fitting : templates'[t].nextRun <= c

C26_WeeklyNextRun == [][C26_WeeklyNextRunStep]_vars

\* template t is selected by the pendingTemplates query of its owner
Selected(P, t, clock) == t \in PendingTemplates(P, P[t].user, clock)

\* C27: whatever the recurrence type, a nextRun that calculateNextRun
\* produced is strictly after the now it was computed at: right after a
\* creation, a recurrence edit, a reactivation or a firing the template's
\* nextRun is in the future and the template is not due.
C27_NextRunInFutureStep ==
    /\ \A t \in DOMAIN templates' :
          Rescheduled(t) => templates'[t].nextRun > now' /\ ~Selected(templates', t, now')
    /\ (lastOp'.kind = "createTemplate" /\ lastOp'.status = 201) =>
          templates'[lastOp'.id].nextRun > now'
    /\ (lastOp'.kind = "toggleTemplate" /\ lastOp'.status = 200
            /\ templates'[lastOp'.id].isActive) =>
          templates'[lastOp'.id].nextRun > now'
    /\ lastOp'.kind = "processPending" =>
          \A t \in lastOp'.marked : templates'[t].nextRun > now'
    /\ lastOp'.kind = "updateTemplate" =>
          \A u \in Callers, id \in DOMAIN templates, body \in RecurUpdateBodies :
              (UpdateTemplate(u, id, body) /\ "recurrence" \in DOMAIN body
                    /\ lastOp'.status = 200) =>
                  templates'[id].nextRun > now'

C27_NextRunInFuture == [][C27_NextRunInFutureStep]_vars

\* a monthly template for the 31st has fired on the 31st at its time and is
\* next scheduled in a later month
C27_MonthlyFiredOnItsDay ==
    /\ lastOp.kind = "processPending"
    /\ \E t \in lastOp.marked :
          /\ templates[t].recurrence.type = "monthly"
          /\ templates[t].recurrence.dayOfMonth = 31
          /\ getDate(now) = 31
          /\ templates[t].lastRun = now
          /\ MonthOf(templates[t].nextRun) > MonthOf(now)

\* template t's nextRun after the step is calculateNextRun of its recurrence
Recomputed(t) ==
    templates'[t].nextRun = calculateNextRun(templates'[t].recurrence, now)

\* template t's nextRun is the same before and after the step
NextRunKept(t) == templates'[t].nextRun = templates[t].nextRun

\* C28: nextRun is recomputed by calculateNextRun on creation, on an update
\* that carries a recurrence, on a toggle from inactive to active and after
\* each processPending firing; a toggle from active to inactive, an update
\* without recurrence and a manual run leave nextRun unchanged.
C28_NextRunLifecycleStep ==
    /\ (lastOp'.kind = "createTemplate" /\ lastOp'.status = 201) =>
          /\ Recomputed(lastOp'.id)
          /\ \A t \in DOMAIN templates : NextRunKept(t)
    /\ (lastOp'.kind = "toggleTemplate" /\ lastOp'.status = 200) =>
          /\ IF templates[lastOp'.id].isActive
             THEN NextRunKept(lastOp'.id) /\ ~templates'[lastOp'.id].isActive
             ELSE Recomputed(lastOp'.id) /\ templates'[lastOp'.id].isActive
          /\ \A t \in DOMAIN templates \ {lastOp'.id} : NextRunKept(t)
    /\ lastOp'.kind = "processPending" =>
          \A t \in DOMAIN templates :
              IF t \in lastOp'.marked THEN Recomputed(t) ELSE NextRunKept(t)
    /\ lastOp'.kind = "runTemplate" =>
          \A t \in DOMAIN templates : NextRunKept(t)
    /\ lastOp'.kind = "updateTemplate" =>
          \A u \in Callers, id \in DOMAIN templates, body \in RecurUpdateBodies :
              (UpdateTemplate(u, id, body) /\ lastOp'.status = 200) =>
                  /\ IF "recurrence" \in DOMAIN body
                     THEN /\ templates'[id].recurrence = body.recurrence
                          /\ Recomputed(id)
                     ELSE NextRunKept(id)
                  /\ \A t \in DOMAIN templates \ {id} : NextRunKept(t)

C28_NextRunLifecycle == [][C28_NextRunLifecycleStep]_vars

\* a due template was run by hand: it has a task and is still due
C28_ManualRunLeavesDue ==
    /\ lastOp.kind = "runTemplate"
    /\ lastOp.status = 200
    /\ templates[lastOp.id].lastRun = now
    /\ templates[lastOp.id].nextRun <= now
    /\ lastOp.created # {}

\* template t is out of reach of owner u's processPending at the clock
OutOfReach(P, t, u, clock) ==
    \/ ~P[t].isActive
    \/ P[t].nextRun > clock
    \/ P[t].user # u

\* C29: processPending creates no task for, and changes no field of, a
\* template that is inactive, whose nextRun is after now, or that belongs
\* to another owner: such templates are left as they were, and every task
\* the call inserts is the caller's and carries the title and category of
\* an active, due template of the caller, at most one task per such template.
C29_ProcessPendingFrameStep ==
    lastOp'.kind = "processPending" =>
        LET u == lastOp'.user
            reach == {t \in DOMAIN templates : ~OutOfReach(templates, t, u, now)}
        IN /\ DOMAIN templates' = DOMAIN templates
           /\ \A t \in DOMAIN templates :
                 OutOfReach(templates, t, u, now) => templates'[t] = templates[t]
           /\ DOMAIN tasks' \ DOMAIN tasks = lastOp'.created
           /\ \A j \in DOMAIN tasks : tasks'[j] = tasks[j]
           /\ Cardinality(lastOp'.created) <= Cardinality(reach)
           /\ \A j \in lastOp'.created :
                 /\ tasks'[j].user = u
                 /\ \E t \in reach : /\ tasks'[j].title = templates[t].title
                                     /\ tasks'[j].category = templates[t].category

C29_ProcessPendingFrame == [][C29_ProcessPendingFrameStep]_vars

\* a call fired the caller's template while another owner's active, due
\* template stayed as it was created
C29_ForeignDueUntouched ==
    /\ lastOp.kind = "processPending"
    /\ lastOp.created # {}
    /\ \E t \in DOMAIN templates :
          /\ templates[t].user # lastOp.user
          /\ templates[t].isActive
          /\ templates[t].nextRun <= now
          /\ templates[t].lastRun = 0
          /\ templates[t].createdTasksCount = 0

----------------------------------------------------------------------------
(* Interrupted move-to-tomorrow *)

\* the non-deleted documents of owner u in tomorrow's window that carry the
\* title and category of document i
ForwardCopies(T, u, i, b) ==
    {j \in Keyed(T, u, T[i].title, T[i].category,
                 b.tomorrowStart, b.dayAfterTomorrowStart) : ~T[j].deleted}

\* C30: move-to-tomorrow saves the forward copy before it marks the source.
\* In the state a run leaves behind, whether it answered or was cut short
\* after any number of its writes, every source it marked moved has a
\* non-deleted task with its title and category in tomorrow's window and no
\* other document was touched, so no task is lost; a copy is inserted only
\* where none was there, so running again adds no duplicate, and a run
\* that is not cut short leaves no eligible task behind.
C30_CopyBeforeMarkStep ==
    Did("moveForward") =>
        LET u == lastOp'.user
            eligible == Uncompleted(tasks, u, Today)
        IN /\ lastOp'.marked \subseteq eligible
           /\ \A i \in DOMAIN tasks :
                 IF i \in lastOp'.marked
                 THEN /\ tasks'[i] = [tasks[i] EXCEPT !.moved = TRUE]
                      /\ ForwardCopies(tasks', u, i, Today) # {}
                 ELSE tasks'[i] = tasks[i]
           /\ DOMAIN tasks' \ DOMAIN tasks = lastOp'.created
           /\ \A j \in lastOp'.created :
                 /\ ForwardCopies(tasks', u, j, Today) = {j}
                 /\ tasks'[j].originalTaskId \in eligible
                 /\ tasks'[j].title = tasks[tasks'[j].originalTaskId].title
                 /\ tasks'[j].category = tasks[tasks'[j].originalTaskId].category
           /\ lastOp'.status = 200 => lastOp'.marked = eligible

C30_CopyBeforeMark == [][C30_CopyBeforeMarkStep]_vars

\* a run finished what a run cut short had begun: it marked a source whose
\* copy the earlier run had saved, and inserted nothing for it
C30_ResumedWithoutDuplicate ==
    /\ lastOp.kind = "moveForward"
    /\ lastOp.status = 200
    /\ \E i \in lastOp.marked :
          /\ \E j \in ForwardCopies(tasks, lastOp.user, i, Today) :
                tasks[j].originalTaskId = i /\ j \notin lastOp.created
          /\ Cardinality(ForwardCopies(tasks, lastOp.user, i, Today)) = 1

====
